---- MODULE Spec2Model ----
(***************************************************************************)
(* Client-side synchronization of the todo list: the ['todos'] query, the  *)
(* create / update / delete mutations of pages/Todos.tsx, the query client *)
(* of App.tsx and the todos table with its row-level policies              *)
(* (supabase-setup.sql).  The query and mutation hooks are modelled by the *)
(* behaviour the application configures them with: retry 1 for queries, no *)
(* retry for mutations, invalidation of ['todos'] on every mutation        *)
(* success, de-duplication of a fetch onto the one in flight.              *)
(***************************************************************************)
EXTENDS Integers, Sequences, FiniteSets, TLC

\* ---------------------------------------------------------------- bounds
MaxMutations == 2     \* mutation requests issued in one behaviour
MaxReads == 3         \* fetchTodos calls issued in one behaviour
MaxSessions == 1      \* sign-ins in one behaviour
MaxContent == 5       \* lexical pieces in one completion text

\* ------------------------------------------------------ program constants
QueryRetry == 1       \* defaultOptions.queries.retry

\* variant of MutationRetry: mutations retried as queries are
MutationRetryAsQueries == QueryRetry

MutationRetry == 0    \* the mutations set no retry option

Users == {"u1", "u2"}
NoUser == "none"
Whitespace == {" "}
TitleInputs == {<<>>, <<" ">>, <<" ", "c">>}
Kinds == {"create", "update", "delete"}

Filters == {"all", "active", "completed"}
PromptInputs == {<<" ">>, <<"p">>}

VARIABLES
  db,          \* rows of the todos table
  clock,       \* server clock: the next id / created_at
  user,        \* the authenticated identity (NoUser when signed out)
  sessions,    \* number of sign-ins still to come
  query,       \* state of the ['todos'] cache entry
  retryer,     \* the fetch attached to the cache entry, with its retry state
  reads,       \* fetchTodos calls on the network
  nextRead,    \* number of fetchTodos calls issued so far, plus one
  muts,        \* the mutations in flight
  issued,      \* number of mutations issued so far
  settled,     \* the mutation that settled last
  obs,         \* per mutation hook: the mutation it observes, and its status
  editingId,   \* id of the row in inline-edit mode (0: none)
  editTitle,   \* content of the inline-edit input
  formError,   \* errors.title of the add form
  aiPrompt,    \* content of the assistant's textarea
  aiStatus,    \* status of aiMutation
  aiSuggestions,              \* the suggestions shown
  selectedSuggestionIndexes,  \* the indexes selected, in selection order
  aiError,     \* the assistant's error line
  bulk,        \* the bulk additions whose creates are awaited
  filter,      \* the filter chosen: all, active or completed
  formTitle,   \* content of the add form's input
  gw           \* an invocation of generateTodosFromPrompt

aiVars == <<aiPrompt, aiStatus, aiSuggestions, selectedSuggestionIndexes,
            aiError, bulk>>

vars == <<db, clock, user, sessions, query, retryer, reads, nextRead, muts, issued,
          settled, obs, editingId, editTitle, formError, aiPrompt, aiStatus,
          aiSuggestions, selectedSuggestionIndexes, aiError, bulk, filter,
          formTitle, gw>>

\* ------------------------------------------------------------- titles
RECURSIVE TrimStart(_)
TrimStart(s) ==
  IF s # <<>> /\ Head(s) \in Whitespace THEN TrimStart(Tail(s)) ELSE s

RECURSIVE TrimEnd(_)
TrimEnd(s) ==
  IF s # <<>> /\ s[Len(s)] \in Whitespace
  THEN TrimEnd(SubSeq(s, 1, Len(s) - 1)) ELSE s

\* String.prototype.trim
Trim(s) == TrimEnd(TrimStart(s))

\* ------------------------------------------------- Remote Data Service
Todo(id, title, completed, uid) ==
  [id |-> id, title |-> title, completed |-> completed, created_at |-> id,
   user_id |-> uid]

SeedRows == {Todo(1, <<"a">>, FALSE, "u1"), Todo(2, <<"b">>, TRUE, "u1")}

\* variant of RlsUsing: no policy on the rows reached
RlsUsingOff(t, uid) == TRUE

\* USING (auth.uid() = user_id)
RlsUsing(t, uid) == uid = t.user_id

\* WITH CHECK (auth.uid() = user_id)
RlsWithCheck(t, uid) == uid = t.user_id

RECURSIVE SortDesc(_)
SortDesc(S) ==
  IF S = {} THEN <<>>
  ELSE LET m == CHOOSE t \in S : \A o \in S : o.created_at <= t.created_at
       IN <<m>> \o SortDesc(S \ {m})

\* select * from todos order by created_at desc, under the SELECT policy
SelectTodos(rows, uid) == SortDesc({t \in rows : RlsUsing(t, uid)})

\* variant of InsertRow: the title is lost
InsertRowUntitled(now, title, userId) == Todo(now, <<>>, FALSE, userId)

\* variant of InsertRow: the row is stored as completed
InsertRowCompleted(now, title, userId) == Todo(now, title, TRUE, userId)

\* insert [{title, user_id}] returning the row: DEFAULTs fill the rest
InsertRow(now, title, userId) == Todo(now, title, FALSE, userId)

\* variant of ApplyUpdates: the fields absent from updates are reset
ApplyUpdatesWholeRow(t, updates) ==
  [f \in DOMAIN t |->
     IF f \in DOMAIN updates THEN updates[f]
     ELSE IF f = "title" THEN <<>>
     ELSE IF f = "completed" THEN FALSE
     ELSE t[f]]

\* update(updates): the fields present in updates replace the row's
ApplyUpdates(t, updates) ==
  [f \in DOMAIN t |-> IF f \in DOMAIN updates THEN updates[f] ELSE t[f]]

\* rows an update or delete with .eq('id', id) reaches under the policies
Targets(rows, id, uid) == {t \in rows : t.id = id /\ RlsUsing(t, uid)}

\* table after the statement of mutation m, and whether it answers an error
ServerApply(rows, now, m) ==
  IF m.kind = "create" THEN
    LET row == InsertRow(now, m.vars.title, m.vars.user_id) IN
    IF RlsWithCheck(row, m.uid)
    THEN [rows |-> rows \cup {row}, ok |-> TRUE, clock |-> now + 1]
    ELSE [rows |-> rows, ok |-> FALSE, clock |-> now]
  ELSE IF m.kind = "update" THEN
    LET hit == Targets(rows, m.vars.id, m.uid)
        new == {ApplyUpdates(t, m.vars.updates) : t \in hit} IN
    IF hit # {} /\ \A t \in new : RlsWithCheck(t, m.uid)
    THEN [rows |-> (rows \ hit) \cup new, ok |-> TRUE, clock |-> now]
    ELSE [rows |-> rows, ok |-> FALSE, clock |-> now]   \* .single() on no row
  ELSE [rows |-> rows \ Targets(rows, m.vars.id, m.uid), ok |-> TRUE,
        clock |-> now]

\* ------------------------------------------------ the ['todos'] query
NoQuery ==
  [exists |-> FALSE, hasData |-> FALSE, data |-> <<>>, status |-> "pending",
   fetchStatus |-> "idle", error |-> 0, isInvalidated |-> FALSE,
   fetchFailureCount |-> 0]

NoRetryer ==
  [active |-> FALSE, waiting |-> FALSE, failureCount |-> 0,
   isRetryCancelled |-> FALSE, calls |-> 0, firstCall |-> 0, lastCall |-> 0,
   outcome |-> "none", joined |-> FALSE]

\* reducer, action 'fetch'
FetchAction(q) ==
  [q EXCEPT !.exists = TRUE, !.fetchStatus = "fetching",
            !.fetchFailureCount = 0,
            !.status = IF q.hasData THEN q.status ELSE "pending",
            !.error = IF q.hasData THEN q.error ELSE 0]

\* variant of SuccessAction: the fetched list is merged into the cached one
SuccessActionMerges(q, list) ==
  [q EXCEPT !.hasData = TRUE,
            !.data = list \o SelectSeq(q.data,
                                       LAMBDA t : \A i \in 1..Len(list) :
                                                    list[i] # t),
            !.status = "success",
            !.error = 0, !.isInvalidated = FALSE, !.fetchStatus = "idle",
            !.fetchFailureCount = 0]

\* reducer, action 'success': the fetched list replaces the cached one
SuccessAction(q, list) ==
  [q EXCEPT !.hasData = TRUE, !.data = list, !.status = "success",
            !.error = 0, !.isInvalidated = FALSE, !.fetchStatus = "idle",
            !.fetchFailureCount = 0]

\* reducer, action 'failed': a failed attempt that will be retried; the
\* failure of the call is kept as the failure reason, not as the error
FailedAction(q, call) == [q EXCEPT !.fetchFailureCount = @ + 1]

\* variant of ErrorAction: the failed fetch also drops the cached list
ErrorActionDropsData(q, call) ==
  [q EXCEPT !.status = "error", !.error = call, !.fetchStatus = "idle",
            !.fetchFailureCount = @ + 1, !.data = <<>>]

\* reducer, action 'error': the fetch gave up on the failure of a call (the
\* error is identified by the call); data is kept
ErrorAction(q, call) ==
  [q EXCEPT !.status = "error", !.error = call, !.fetchStatus = "idle",
            !.fetchFailureCount = @ + 1]

\* reducer, action 'invalidate'
InvalidateAction(q) == [q EXCEPT !.isInvalidated = TRUE]

\* useQuery's view: data: todos = [], isLoading
Todos == IF query.hasData THEN query.data ELSE <<>>

\* variant of IsLoading: isFetching
IsFetching == query.fetchStatus = "fetching"

IsLoading == query.fetchStatus = "fetching" /\ query.status = "pending"

Mounted == user # NoUser

\* the read side of the client as one value, so that one handler's whole
\* effect on it is a function
Cache == [query |-> query, retryer |-> retryer, reads |-> reads,
          nextRead |-> nextRead]

\* Query.fetch, while a fetch is in flight: a refetch that may cancel it
\* does so when there is data
Cancels(q, cancelRefetch) ==
  q.fetchStatus # "idle" /\ q.hasData /\ cancelRefetch

\* variant of Joins: every request starts a call of its own
JoinsNever(q, cancelRefetch) == FALSE

\* ... and any other request joins the fetch in flight and starts no call
Joins(q, cancelRefetch) ==
  q.fetchStatus # "idle" /\ ~Cancels(q, cancelRefetch)

\* a call whose fetch was cancelled silently: it stays on the network, and
\* nothing of its answer is used
Discarded(r) ==
  [r EXCEPT !.live = FALSE, !.phase = "answered", !.ok = FALSE, !.snap = <<>>]

\* Query.cancel({ silent: true }): fetchTodos takes no abort signal
CancelSilent(c) == [c EXCEPT !.reads = {Discarded(r) : r \in c.reads}]

\* the retryer runs queryFn: one fetchTodos call, under the session's token
StartCall(c, uid) ==
  [c EXCEPT !.reads = @ \cup {[id |-> c.nextRead, live |-> TRUE,
                               phase |-> "sent", ok |-> FALSE, snap |-> <<>>,
                               uid |-> uid]},
            !.nextRead = @ + 1,
            !.retryer.calls = @ + 1,
            !.retryer.firstCall = IF @ = 0 THEN c.nextRead ELSE @,
            !.retryer.lastCall = c.nextRead,
            !.retryer.waiting = FALSE]

\* Query.fetch
QueryFetch(c, cancelRefetch, uid) ==
  IF Joins(c.query, cancelRefetch)
  THEN [c EXCEPT !.retryer.isRetryCancelled = FALSE,
                 !.retryer.joined = TRUE]
  ELSE LET base == IF Cancels(c.query, cancelRefetch) THEN CancelSilent(c)
                   ELSE c IN
       StartCall([base EXCEPT !.query = FetchAction(@),
                              !.retryer = [NoRetryer EXCEPT
                                             !.active = TRUE,
                                             !.outcome = "running"]],
                 uid)

\* queryClient.invalidateQueries({ queryKey: ['todos'] })
InvalidateQueries(c, active, uid) ==
  IF ~c.query.exists THEN c
  ELSE LET marked == [c EXCEPT !.query = InvalidateAction(@)] IN
       IF active THEN QueryFetch(marked, TRUE, uid) ELSE marked

\* fetchTodos: if (error) throw error; return data || []
FetchTodosThrows(r) == ~r.ok
FetchTodosResult(r) == r.snap

\* variant of GivesUp: one retry too many
GivesUpLate(rt) == rt.isRetryCancelled \/ ~(rt.failureCount <= QueryRetry)

\* the retryer gives up when retries are cancelled or used up
GivesUp(rt) == rt.isRetryCancelled \/ ~(rt.failureCount < QueryRetry)

\* a fetchTodos call settles on the client
OnReadSettled(c, r) ==
  LET rest == [c EXCEPT !.reads = @ \ {r}] IN
  IF ~r.live THEN rest
  ELSE IF ~FetchTodosThrows(r) THEN
    [rest EXCEPT !.query = SuccessAction(@, FetchTodosResult(r)),
                 !.retryer.active = FALSE,
                 !.retryer.outcome = "success"]
  ELSE IF GivesUp(rest.retryer) THEN
    [rest EXCEPT !.query = ErrorAction(@, r.id),
                 !.retryer.active = FALSE,
                 !.retryer.outcome = "error"]
  ELSE
    [rest EXCEPT !.query = FailedAction(@, r.id),
                 !.retryer.failureCount = @ + 1,
                 !.retryer.waiting = TRUE]

SetCache(c) ==
  /\ c.nextRead <= MaxReads + 1
  /\ query' = c.query
  /\ retryer' = c.retryer
  /\ reads' = c.reads
  /\ nextRead' = c.nextRead

\* staleTime is left at its default
StaleTime == 0
IsStale(q) == ~q.hasData \/ q.isInvalidated \/ StaleTime = 0

\* refetchOnMount and retryOnMount are left at their defaults
ShouldFetchOnMount(q) == ~q.hasData \/ IsStale(q)

\* the query observer subscribes when the page mounts
OnSubscribe(c, uid) ==
  IF ShouldFetchOnMount(c.query) THEN QueryFetch(c, FALSE, uid) ELSE c

\* the last observer leaves: the attempt in flight goes on, retries do not
OnUnsubscribe(c) ==
  IF c.retryer.active THEN [c EXCEPT !.retryer.isRetryCancelled = TRUE] ELSE c

\* ------------------------------------------------------------ mutations
NoObservers == [k \in Kinds |-> [mut |-> 0, status |-> "idle"]]

NoVars == [id |-> 0]

NoSettled ==
  [id |-> 0, kind |-> "none", via |-> "none", ok |-> FALSE, calls |-> 0,
   reported |-> FALSE, orphaned |-> FALSE, error |-> "none", target |-> 0]

Status(k) == obs[k].status
IsPending(k) == Status(k) = "pending"

\* mutateAsync hands the outcome to the awaiting handler; mutate does not
IsAsync(via) == via \in {"onSubmit", "handleSaveEdit", "bulk"}

\* a mutation built by the mutation cache, about to run its mutationFn
NewMutation(id, kind, via, mvars, pc, uid) ==
  [id |-> id, kind |-> kind, via |-> via, vars |-> mvars, pc |-> pc,
   uid |-> uid, calls |-> 1, failureCount |-> 0, orphaned |-> FALSE]

\* MutationObserver.mutate: a new mutation, which the hook now observes
Mutate(kind, via, mvars, pc, uid) ==
  /\ issued < MaxMutations
  /\ issued' = issued + 1
  /\ muts' = muts \cup {NewMutation(issued + 1, kind, via, mvars, pc, uid)}
  /\ obs' = [obs EXCEPT ![kind] = [mut |-> issued + 1, status |-> "pending"]]
  /\ UNCHANGED settled

\* a failed mutation reaches its caller: the rejected promise of
\* mutateAsync, or the error state of the hook that still observes it
FailureReported(m, observers) ==
  IsAsync(m.via) \/ observers[m.kind].mut = m.id

\* variant of Observe: the hook's result follows every mutation of its kind
ObserveAny(observers, m, ok) ==
  [observers EXCEPT ![m.kind] =
     [mut |-> 0, status |-> IF ok THEN "success" ELSE "error"]]

\* the hook's result follows the mutation it observes, and no other
Observe(observers, m, ok) ==
  IF observers[m.kind].mut = m.id
  THEN [observers EXCEPT ![m.kind] =
          [mut |-> 0, status |-> IF ok THEN "success" ELSE "error"]]
  ELSE observers

\* variant of MutationSuccess: the cached list is emptied before the refetch
MutationSuccessClearsList(c, active, uid) ==
  LET d == InvalidateQueries(c, active, uid) IN
  [d EXCEPT !.query.data = <<>>]

\* onSuccess of the three mutations
MutationSuccess(c, active, uid) == InvalidateQueries(c, active, uid)

\* no onError and no onSettled is given: a failure leaves the cache alone
MutationError(c) == c

\* the callback of todos.filter
Keeps(todo, f) ==
  IF f = "active" THEN ~todo.completed
  ELSE IF f = "completed" THEN todo.completed
  ELSE TRUE

RECURSIVE Reverse(_)
Reverse(list) ==
  IF list = <<>> THEN <<>> ELSE Append(Reverse(Tail(list)), Head(list))

\* variant of FilterTodos: the rows kept come out in reverse
FilterTodosReversed(list, f) ==
  Reverse(SelectSeq(list, LAMBDA todo : Keeps(todo, f)))

\* Array.prototype.filter with that callback
FilterTodos(list, f) == SelectSeq(list, LAMBDA todo : Keeps(todo, f))

\* filteredTodos
FilteredTodos == FilterTodos(Todos, filter)

\* rows the list renders (nothing while isLoading)
Displayed ==
  IF IsLoading THEN {}
  ELSE {FilteredTodos[i] : i \in 1..Len(FilteredTodos)}

\* todoSchema: z.string().min(1)
SchemaValid(title) == Len(title) >= 1

\* handleSaveEdit's guard: if (!editTitle.trim()) return
EditRejected(title) == Trim(title) = <<>>

\* ---------------------------------------------------------- AI gateway
\* A completion text is a sequence of lexical pieces: the braces, a word of
\* prose, the literal null, and a member "suggestions": [...] named by the
\* list it holds (S0: none, Sxy: titles x and y, Sxb: title x and a blank one).
Members == {"S0", "Sxy", "Sxb"}
Pieces == {"{", "}", "p", "null", "S0", "Sxy"}
Contents == UNION {[1..n -> Pieces] : n \in 0..MaxContent}
Keys == {"", "k"}

MemberSuggestions(piece) ==
  IF piece = "Sxy" THEN << <<"x">>, <<"y">> >>
  ELSE IF piece = "Sxb" THEN << <<"x">>, <<" ">> >>
  ELSE <<>>

SyntaxError ==
  [ok |-> FALSE, isNull |-> FALSE, hasSuggestions |-> FALSE,
   suggestions |-> <<>>]

\* JSON.parse: the value of a text that is one JSON value, or a SyntaxError
JsonParse(text) ==
  IF text = <<"null">>
  THEN [ok |-> TRUE, isNull |-> TRUE, hasSuggestions |-> FALSE,
        suggestions |-> <<>>]
  ELSE IF text = <<"{", "}">>
  THEN [ok |-> TRUE, isNull |-> FALSE, hasSuggestions |-> FALSE,
        suggestions |-> <<>>]
  ELSE IF Len(text) = 3 /\ text[1] = "{" /\ text[2] \in Members
          /\ text[3] = "}"
  THEN [ok |-> TRUE, isNull |-> FALSE, hasSuggestions |-> TRUE,
        suggestions |-> MemberSuggestions(text[2])]
  ELSE SyntaxError

\* String.prototype.lastIndexOf (0: not found)
LastIndexOf(text, piece) ==
  IF \E i \in 1..Len(text) : text[i] = piece
  THEN CHOOSE i \in 1..Len(text) :
         text[i] = piece /\ \A j \in (i + 1)..Len(text) : text[j] # piece
  ELSE 0

\* String.prototype.indexOf (0: not found)
IndexOf(text, piece) ==
  IF \E i \in 1..Len(text) : text[i] = piece
  THEN CHOOSE i \in 1..Len(text) :
         text[i] = piece /\ \A j \in 1..(i - 1) : text[j] # piece
  ELSE 0

\* content.slice(start, end + 1)
Slice(text, start, end) == SubSeq(text, start, end)

\* variant of ParseContent: no recovery after the direct parse
ParseContentDirect(content) == JsonParse(content)

\* the two-tier parse: JSON.parse(content), else the text from the first
\* '{' to the last '}'
ParseContent(content) ==
  IF JsonParse(content).ok THEN JsonParse(content)
  ELSE LET start == IndexOf(content, "{")
           end == LastIndexOf(content, "}") IN
       IF start # 0 /\ end # 0
       THEN JsonParse(Slice(content, start, end))
       ELSE SyntaxError

\* what an invocation ends with: the suggestions, or an error by its message
GwError(name, status, text) ==
  [ok |-> FALSE, error |-> name, status |-> status, text |-> text,
   suggestions |-> <<>>]

GwValue(suggestions) ==
  [ok |-> TRUE, error |-> "none", status |-> 0, text |-> <<>>,
   suggestions |-> suggestions]

NoResult == GwError("none", 0, <<>>)

\* the endpoint's answer: fetch rejects, or an HTTP response with a status
\* and a text (the completion text of a success, the body of a failure)
NetworkFailure == [kind |-> "network", status |-> 0, content |-> <<>>]
Http(status, content) ==
  [kind |-> "http", status |-> status, content |-> content]
Statuses == {200, 500}
Responses == {NetworkFailure} \cup {Http(st, c) : st \in Statuses, c \in Contents}

\* the answers the page's assistant is given
PageResponses ==
  {NetworkFailure} \cup {Http(200, <<"{", piece, "}">>) : piece \in Members}

\* response.ok
ResponseOk(resp) == resp.status \in 200..299

\* variant of RequestFailedError: the body text is left out
RequestFailedNoBody(resp) == GwError("RequestFailed", resp.status, <<>>)

\* Error(`AI request failed: ${status} ${statusText} - ${text}`)
RequestFailedError(resp) == GwError("RequestFailed", resp.status, resp.content)

\* generateTodosFromPrompt, from the answer of fetch on
HandleResponse(resp) ==
  IF resp.kind = "network" THEN GwError("FetchRejected", 0, <<>>)
  ELSE IF ~ResponseOk(resp) THEN RequestFailedError(resp)
  ELSE IF resp.content = <<>> THEN GwError("EmptyResponse", 0, <<>>)
  ELSE LET parsed == ParseContent(resp.content) IN
       IF ~parsed.ok THEN GwError("ParseError", 0, <<>>)
       ELSE IF parsed.isNull THEN GwError("TypeError", 0, <<>>)
       ELSE GwValue(IF parsed.hasSuggestions THEN parsed.suggestions
                    ELSE <<>>)

\* variant of KeyMissing: the credential is not checked
KeyNeverMissing(key) == FALSE

\* if (!openAiApiKey)
KeyMissing(key) == key = ""

\* variant of GatewayRetry: a failed request is sent again
GatewayRetryOnFailure(resp) == resp.kind = "network" \/ ~ResponseOk(resp)

\* the gateway has no retry: every answer is final
GatewayRetry(resp) == FALSE

NoInvocation ==
  [key |-> "k", resp |-> NetworkFailure, pc |-> "idle", requests |-> 0,
   result |-> NoResult]

\* ------------------------------------------------------------- actions
Fresh ==
  /\ db = SeedRows
  /\ clock = 3
  /\ user = NoUser
  /\ query = NoQuery
  /\ retryer = NoRetryer
  /\ reads = {}
  /\ nextRead = 1
  /\ muts = {}
  /\ issued = 0
  /\ settled = NoSettled
  /\ obs = NoObservers
  /\ editingId = 0
  /\ editTitle = <<>>
  /\ formError = FALSE
  /\ aiPrompt = <<>>
  /\ aiStatus = "idle"
  /\ aiSuggestions = <<>>
  /\ selectedSuggestionIndexes = <<>>
  /\ aiError = "none"
  /\ bulk = {}
  /\ filter = "all"
  /\ formTitle = <<>>

Init == Fresh /\ sessions = MaxSessions /\ gw = NoInvocation

\* the page's own state: lost when the page unmounts, fresh when it mounts
ResetPage ==
  /\ obs' = NoObservers
  /\ editingId' = 0
  /\ editTitle' = <<>>
  /\ formError' = FALSE
  /\ aiPrompt' = <<>>
  /\ aiStatus' = "idle"
  /\ aiSuggestions' = <<>>
  /\ selectedSuggestionIndexes' = <<>>
  /\ aiError' = "none"
  /\ bulk' = {}
  /\ filter' = "all"
  /\ formTitle' = <<>>

\* a session starts: ProtectedRoute renders the page, useQuery subscribes
SignIn(u) ==
  /\ user = NoUser
  /\ sessions > 0
  /\ user' = u
  /\ sessions' = sessions - 1
  /\ SetCache(OnSubscribe(Cache, u))
  /\ ResetPage
  /\ UNCHANGED <<db, clock, muts, issued, settled>>
  /\ UNCHANGED gw

\* signOut: the session ends and ProtectedRoute takes the page away
SignOut ==
  /\ user # NoUser
  /\ user' = NoUser
  /\ UNCHANGED sessions
  /\ SetCache(OnUnsubscribe(Cache))
  /\ ResetPage
  /\ muts' = {[m EXCEPT !.orphaned = TRUE] : m \in muts}
  /\ UNCHANGED <<db, clock, issued, settled>>
  /\ UNCHANGED gw

\* gcTime has passed on an entry nobody observes and nothing fetches
GcQuery ==
  /\ ~Mounted
  /\ query.exists
  /\ query.fetchStatus = "idle"
  /\ query' = NoQuery
  /\ retryer' = NoRetryer
  /\ UNCHANGED <<db, clock, user, sessions, reads, nextRead, muts, issued, settled, obs, editingId,
                 editTitle, formError>>
  /\ UNCHANGED aiVars
  /\ UNCHANGED <<filter, formTitle, gw>>

\* the service answers a fetchTodos call: the rows of that moment, or an error
ReadServer(r) ==
  /\ r \in reads
  /\ r.phase = "sent"
  /\ \E ok \in BOOLEAN :
       reads' = (reads \ {r}) \cup
                {[r EXCEPT !.phase = "answered", !.ok = ok,
                           !.snap = IF ok THEN SelectTodos(db, r.uid)
                                    ELSE <<>>]}
  /\ UNCHANGED <<db, clock, user, sessions, query, retryer, nextRead, muts, issued, settled, obs,
                 editingId, editTitle, formError>>
  /\ UNCHANGED aiVars
  /\ UNCHANGED <<filter, formTitle, gw>>

\* the answer of a fetchTodos call reaches the client
ReadSettled(r) ==
  /\ r \in reads
  /\ r.phase = "answered"
  /\ SetCache(OnReadSettled(Cache, r))
  /\ UNCHANGED <<db, clock, user, sessions, muts, issued, settled, obs, editingId, editTitle, formError>>
  /\ UNCHANGED aiVars
  /\ UNCHANGED <<filter, formTitle, gw>>

\* the retry delay is over
RetryAfterDelay ==
  /\ retryer.active
  /\ retryer.waiting
  /\ IF retryer.isRetryCancelled
     THEN SetCache([Cache EXCEPT
            !.query = ErrorAction(@, retryer.lastCall),
            !.retryer.active = FALSE,
            !.retryer.waiting = FALSE,
            !.retryer.outcome = "error"])
     ELSE SetCache(StartCall(Cache, user))
  /\ UNCHANGED <<db, clock, user, sessions, muts, issued, settled, obs, editingId, editTitle, formError>>
  /\ UNCHANGED aiVars
  /\ UNCHANGED <<filter, formTitle, gw>>

\* the add form is submitted: handleSubmit validates, then onSubmit
OnSubmit(title) ==
  /\ Mounted
  /\ ~IsPending("create")
  /\ IF SchemaValid(title)
     THEN /\ Mutate("create", "onSubmit",
                    [title |-> title, user_id |-> NoUser], "getUser", NoUser)
          /\ formError' = FALSE
     ELSE /\ formError' = TRUE
          /\ UNCHANGED <<muts, issued, settled, obs>>
  /\ UNCHANGED <<db, clock, user, sessions, query, retryer, reads, nextRead, editingId,
                 editTitle>>
  /\ UNCHANGED aiVars
  /\ formTitle' = title
  /\ UNCHANGED <<filter, gw>>

\* the checkbox of a row
ToggleCompleted(t) ==
  /\ Mounted
  /\ t \in Displayed
  /\ editingId # t.id
  /\ ~IsPending("update")
  /\ Mutate("update", "checkbox",
            [id |-> t.id, updates |-> [completed |-> ~t.completed]],
            "sent", user)
  /\ UNCHANGED <<db, clock, user, sessions, query, retryer, reads, nextRead, editingId,
                 editTitle, formError>>
  /\ UNCHANGED aiVars
  /\ UNCHANGED <<filter, formTitle, gw>>

\* the Delete button of a row
DeleteClick(t) ==
  /\ Mounted
  /\ t \in Displayed
  /\ editingId # t.id
  /\ ~IsPending("delete")
  /\ ~IsPending("update")
  /\ Mutate("delete", "deleteButton", [id |-> t.id], "sent", user)
  /\ UNCHANGED <<db, clock, user, sessions, query, retryer, reads, nextRead, editingId,
                 editTitle, formError>>
  /\ UNCHANGED aiVars
  /\ UNCHANGED <<filter, formTitle, gw>>

\* the Edit button of a row
HandleEdit(t) ==
  /\ Mounted
  /\ t \in Displayed
  /\ editingId # t.id
  /\ ~IsPending("update")
  /\ ~IsPending("delete")
  /\ editingId' = t.id
  /\ editTitle' = t.title
  /\ UNCHANGED <<db, clock, user, sessions, query, retryer, reads, nextRead, muts, issued, settled, obs,
                 formError>>
  /\ UNCHANGED aiVars
  /\ UNCHANGED <<filter, formTitle, gw>>

\* the row in edit mode, when the list renders it
EditingRow == {t \in Displayed : t.id = editingId}

\* typing in the inline-edit input
ChangeEditTitle(title) ==
  /\ Mounted
  /\ EditingRow # {}
  /\ editTitle # title
  /\ editTitle' = title
  /\ UNCHANGED <<db, clock, user, sessions, query, retryer, reads, nextRead, muts, issued, settled, obs,
                 editingId, formError>>
  /\ UNCHANGED aiVars
  /\ UNCHANGED <<filter, formTitle, gw>>

\* Enter in the inline-edit input, or the Save button
HandleSaveEdit ==
  /\ Mounted
  /\ EditingRow # {}
  /\ ~EditRejected(editTitle)
  /\ Mutate("update", "handleSaveEdit",
            [id |-> editingId, updates |-> [title |-> Trim(editTitle)]],
            "sent", user)
  /\ UNCHANGED <<db, clock, user, sessions, query, retryer, reads, nextRead, editingId,
                 editTitle, formError>>
  /\ UNCHANGED aiVars
  /\ UNCHANGED <<filter, formTitle, gw>>

\* Escape in the inline-edit input, or the Cancel button
HandleCancelEdit ==
  /\ Mounted
  /\ EditingRow # {}
  /\ editingId' = 0
  /\ editTitle' = <<>>
  /\ UNCHANGED <<db, clock, user, sessions, query, retryer, reads, nextRead, muts, issued, settled, obs,
                 formError>>
  /\ UNCHANGED aiVars
  /\ UNCHANGED <<filter, formTitle, gw>>

\* the bulk addition that awaits mutation m (none for other mutations)
BatchOf(m) ==
  {b \in bulk : m.via = "bulk" /\ b.first <= m.id /\ m.id < b.first + b.n}

\* variant of AwaitAll: the wait ends when every create has settled
AwaitAllSettled(m, ok) ==
  IF BatchOf(m) = {} THEN UNCHANGED aiVars
  ELSE LET b == CHOOSE x \in BatchOf(m) : TRUE IN
       IF b.left = 1
       THEN /\ bulk' = bulk \ {b}
            /\ aiSuggestions' = <<>>
            /\ selectedSuggestionIndexes' = <<>>
            /\ aiPrompt' = <<>>
            /\ UNCHANGED <<aiStatus, aiError>>
       ELSE /\ bulk' = (bulk \ {b}) \cup {[b EXCEPT !.left = @ - 1]}
            /\ UNCHANGED <<aiPrompt, aiStatus, aiSuggestions,
                           selectedSuggestionIndexes, aiError>>

\* handleAddSelectedSuggestions after its await: Promise.all fulfils when
\* the last create has, and rejects with the first create that fails
AwaitAll(m, ok) ==
  IF BatchOf(m) = {} THEN UNCHANGED aiVars
  ELSE LET b == CHOOSE x \in BatchOf(m) : TRUE IN
       IF ~ok
       THEN /\ bulk' = bulk \ {b}
            /\ UNCHANGED <<aiPrompt, aiStatus, aiSuggestions,
                           selectedSuggestionIndexes, aiError>>
       ELSE IF b.left = 1
       THEN /\ bulk' = bulk \ {b}
            /\ aiSuggestions' = <<>>
            /\ selectedSuggestionIndexes' = <<>>
            /\ aiPrompt' = <<>>
            /\ UNCHANGED <<aiStatus, aiError>>
       ELSE /\ bulk' = (bulk \ {b}) \cup {[b EXCEPT !.left = @ - 1]}
            /\ UNCHANGED <<aiPrompt, aiStatus, aiSuggestions,
                           selectedSuggestionIndexes, aiError>>

\* variant of ResetsForm: the form is reset whatever the outcome
ResetsFormAlways(m, ok) == ~m.orphaned /\ m.via = "onSubmit"

\* onSubmit after its await: reset() when the create succeeded
ResetsForm(m, ok) == ok /\ ~m.orphaned /\ m.via = "onSubmit"

\* the outcome of a mutation reaches its caller and the page
Settle(m, ok, err) ==
  /\ muts' = muts \ {m}
  /\ settled' = [id |-> m.id, kind |-> m.kind, via |-> m.via, ok |-> ok,
                 calls |-> m.calls, orphaned |-> m.orphaned,
                 reported |-> ~ok /\ FailureReported(m, obs),
                 error |-> err,
                 target |-> IF m.kind = "create" THEN 0 ELSE m.vars.id]
  /\ obs' = Observe(obs, m, ok)
  /\ IF ok /\ ~m.orphaned /\ m.via = "handleSaveEdit"
     THEN editingId' = 0 /\ editTitle' = <<>>
     ELSE UNCHANGED <<editingId, editTitle>>
  /\ AwaitAll(m, ok)
  /\ formTitle' = IF ResetsForm(m, ok) THEN <<>> ELSE formTitle
  /\ UNCHANGED <<issued, formError>>

\* variant of NotAuthenticated: the identity is not checked
NotAuthenticatedNever(u) == FALSE

\* createTodo: if (!user) throw new Error('Not authenticated')
NotAuthenticated(u) == u = NoUser

\* createTodo, first half: supabase.auth.getUser() and the check of its user
CreateGetUser(m) ==
  /\ m \in muts
  /\ m.pc = "getUser"
  /\ IF NotAuthenticated(user)
     THEN /\ Settle(m, FALSE, "NotAuthenticated")
          /\ SetCache(MutationError(Cache))
     ELSE /\ muts' = (muts \ {m}) \cup
                     {[m EXCEPT !.pc = "sent", !.uid = user,
                                !.vars.user_id = user]}
          /\ UNCHANGED <<query, retryer, reads, nextRead, issued, settled, obs,
                         editingId, editTitle, formError, formTitle>>
          /\ UNCHANGED aiVars
  /\ UNCHANGED <<db, clock, user, sessions>>
  /\ UNCHANGED <<filter, gw>>

\* the service executes the statement of a mutation (or fails) and the
\* answer reaches the client
MutSettled(m) ==
  /\ m \in muts
  /\ m.pc = "sent"
  /\ \E up \in BOOLEAN :
       LET res == IF up THEN ServerApply(db, clock, m)
                  ELSE [rows |-> db, ok |-> FALSE, clock |-> clock] IN
       /\ db' = res.rows
       /\ clock' = res.clock
       /\ IF res.ok
          THEN /\ Settle(m, TRUE, "none")
               /\ SetCache(MutationSuccess(Cache, Mounted, user))
          ELSE IF m.failureCount < MutationRetry
          THEN /\ muts' = (muts \ {m}) \cup
                          {[m EXCEPT !.failureCount = @ + 1, !.calls = @ + 1]}
               /\ UNCHANGED <<query, retryer, reads, nextRead, issued, settled,
                              obs, editingId, editTitle, formError, formTitle>>
               /\ UNCHANGED aiVars
          ELSE /\ Settle(m, FALSE, "service")
               /\ SetCache(MutationError(Cache))
  /\ UNCHANGED <<user, sessions>>
  /\ UNCHANGED <<filter, gw>>

\* typing in the assistant's textarea (disabled while aiMutation is pending)
SetAiPrompt(p) ==
  /\ Mounted
  /\ aiStatus # "pending"
  /\ aiPrompt # p
  /\ aiPrompt' = p
  /\ UNCHANGED <<db, clock, user, sessions, query, retryer, reads, nextRead,
                 muts, issued, settled, obs, editingId, editTitle, formError,
                 aiStatus, aiSuggestions, selectedSuggestionIndexes, aiError,
                 bulk>>
  /\ UNCHANGED <<filter, formTitle, gw>>

\* the Generate todos button, up to the await of aiMutation.mutateAsync
HandleGenerateWithAi ==
  /\ Mounted
  /\ ~KeyMissing(gw.key)
  /\ aiStatus # "pending"
  /\ Trim(aiPrompt) # <<>>
  /\ aiError' = "none"
  /\ aiStatus' = "pending"
  /\ UNCHANGED <<db, clock, user, sessions, query, retryer, reads, nextRead,
                 muts, issued, settled, obs, editingId, editTitle, formError,
                 aiPrompt, aiSuggestions, selectedSuggestionIndexes, bulk>>
  /\ UNCHANGED <<filter, formTitle, gw>>

\* every index of a suggestion list
AllIndexes(suggestions) == [i \in 1..Len(suggestions) |-> i]

\* aiMutation settles: onSuccess, then the rest of handleGenerateWithAi
AiSettled(ok, suggestions) ==
  /\ Mounted
  /\ aiStatus = "pending"
  /\ IF ok
     THEN /\ aiStatus' = "success"
          /\ aiSuggestions' = suggestions
          /\ selectedSuggestionIndexes' = AllIndexes(suggestions)
          /\ aiError' = IF Len(suggestions) = 0 THEN "empty" ELSE aiError
     ELSE /\ aiStatus' = "error"
          /\ aiError' = "failed"
          /\ UNCHANGED <<aiSuggestions, selectedSuggestionIndexes>>
  /\ UNCHANGED <<db, clock, user, sessions, query, retryer, reads, nextRead,
                 muts, issued, settled, obs, editingId, editTitle, formError,
                 aiPrompt, bulk>>
  /\ UNCHANGED <<filter, formTitle, gw>>

\* variant of Toggled: the index is added whether selected or not
ToggledAppends(prev, index) == Append(prev, index)

\* prev.includes(index) ? prev.filter((i) => i !== index) : [...prev, index]
Toggled(prev, index) ==
  IF \E k \in 1..Len(prev) : prev[k] = index
  THEN SelectSeq(prev, LAMBDA i : i # index)
  ELSE Append(prev, index)

\* a click on a suggestion
ToggleSuggestionSelected(index) ==
  /\ Mounted
  /\ index \in 1..Len(aiSuggestions)
  /\ selectedSuggestionIndexes' = Toggled(selectedSuggestionIndexes, index)
  /\ UNCHANGED <<db, clock, user, sessions, query, retryer, reads, nextRead,
                 muts, issued, settled, obs, editingId, editTitle, formError,
                 aiPrompt, aiStatus, aiSuggestions, aiError, bulk>>
  /\ UNCHANGED <<filter, formTitle, gw>>

\* the Select all button
SelectAll ==
  /\ Mounted
  /\ aiSuggestions # <<>>
  /\ selectedSuggestionIndexes # AllIndexes(aiSuggestions)
  /\ selectedSuggestionIndexes' = AllIndexes(aiSuggestions)
  /\ UNCHANGED <<db, clock, user, sessions, query, retryer, reads, nextRead,
                 muts, issued, settled, obs, editingId, editTitle, formError,
                 aiPrompt, aiStatus, aiSuggestions, aiError, bulk>>
  /\ UNCHANGED <<filter, formTitle, gw>>

\* titlesToAdd: the titles of the selected suggestions, blank ones dropped
TitlesToAdd(suggestions, selected) ==
  LET picked == [k \in 1..Len(selected) |->
                   IF selected[k] \in 1..Len(suggestions)
                   THEN suggestions[selected[k]] ELSE <<>>]
  IN SelectSeq(picked, LAMBDA t : Trim(t) # <<>>)

\* the Add selected todos button, up to the await of Promise.all: one
\* createMutation.mutateAsync per title, the hook observing the last
HandleAddSelectedSuggestions ==
  /\ Mounted
  /\ aiSuggestions # <<>>
  /\ ~IsPending("create")
  /\ selectedSuggestionIndexes # <<>>
  /\ LET titles == TitlesToAdd(aiSuggestions, selectedSuggestionIndexes)
         n == Len(titles) IN
     /\ n > 0
     /\ issued + n <= MaxMutations
     /\ issued' = issued + n
     /\ muts' = muts \cup
                {NewMutation(issued + k, "create", "bulk",
                             [title |-> titles[k], user_id |-> NoUser],
                             "getUser", NoUser) : k \in 1..n}
     /\ obs' = [obs EXCEPT !["create"] =
                  [mut |-> issued + n, status |-> "pending"]]
     /\ bulk' = bulk \cup {[first |-> issued + 1, n |-> n, left |-> n,
                            titles |-> titles]}
  /\ UNCHANGED <<db, clock, user, sessions, query, retryer, reads, nextRead,
                 settled, editingId, editTitle, formError, aiPrompt, aiStatus,
                 aiSuggestions, selectedSuggestionIndexes, aiError>>
  /\ UNCHANGED <<filter, formTitle, gw>>

pageVars ==
  <<db, clock, user, sessions, query, retryer, reads, nextRead, muts, issued,
    settled, obs, editingId, editTitle, formError, aiPrompt, aiStatus,
    aiSuggestions, selectedSuggestionIndexes, aiError, bulk, filter,
    formTitle>>

\* generateTodosFromPrompt up to its await of fetch
GwInvoke ==
  /\ gw.pc = "start"
  /\ gw' = IF KeyMissing(gw.key)
           THEN [gw EXCEPT !.pc = "done",
                           !.result = GwError("NotConfigured", 0, <<>>)]
           ELSE [gw EXCEPT !.pc = "fetching", !.requests = @ + 1]
  /\ UNCHANGED pageVars

\* generateTodosFromPrompt from the answer of fetch to its end
GwRespond ==
  /\ gw.pc = "fetching"
  /\ gw' = IF GatewayRetry(gw.resp) /\ gw.requests < 2
           THEN [gw EXCEPT !.requests = @ + 1]
           ELSE [gw EXCEPT !.pc = "done", !.result = HandleResponse(gw.resp)]
  /\ UNCHANGED pageVars

\* variant of SetFilter: choosing a filter refreshes the list
SetFilterRefetches(f) ==
  /\ Mounted
  /\ filter # f
  /\ filter' = f
  /\ SetCache(InvalidateQueries(Cache, TRUE, user))
  /\ UNCHANGED <<db, clock, user, sessions, muts, issued, settled, obs,
                 editingId, editTitle, formError, formTitle, gw>>
  /\ UNCHANGED aiVars

\* the Filter buttons: setFilter
SetFilter(f) ==
  /\ Mounted
  /\ filter # f
  /\ filter' = f
  /\ UNCHANGED <<db, clock, user, sessions, query, retryer, reads, nextRead,
                 muts, issued, settled, obs, editingId, editTitle, formError,
                 formTitle, gw>>
  /\ UNCHANGED aiVars

Next ==
  \/ \E u \in Users : SignIn(u)
  \/ SignOut
  \/ GcQuery
  \/ \E r \in reads : ReadServer(r)
  \/ \E r \in reads : ReadSettled(r)
  \/ RetryAfterDelay
  \/ \E title \in TitleInputs : OnSubmit(title)
  \/ \E t \in Displayed : ToggleCompleted(t)
  \/ \E t \in Displayed : DeleteClick(t)
  \/ \E t \in Displayed : HandleEdit(t)
  \/ \E title \in TitleInputs : ChangeEditTitle(title)
  \/ HandleSaveEdit
  \/ HandleCancelEdit
  \/ \E m \in muts : CreateGetUser(m)
  \/ \E m \in muts : MutSettled(m)

Spec == Init /\ [][Next]_vars

\* one more session, on a page whose rows are not edited inline
InitSessions == Fresh /\ sessions = MaxSessions + 1 /\ gw = NoInvocation

NextSessions ==
  \/ \E u \in Users : SignIn(u)
  \/ SignOut
  \/ GcQuery
  \/ \E r \in reads : ReadServer(r)
  \/ \E r \in reads : ReadSettled(r)
  \/ RetryAfterDelay
  \/ \E title \in TitleInputs : OnSubmit(title)
  \/ \E t \in Displayed : ToggleCompleted(t)
  \/ \E t \in Displayed : DeleteClick(t)
  \/ \E m \in muts : CreateGetUser(m)
  \/ \E m \in muts : MutSettled(m)

SpecSessions == InitSessions /\ [][NextSessions]_vars

\* the page with its assistant: suggestions are generated, selected and
\* added in bulk
NextBulk ==
  \/ \E u \in Users : SignIn(u)
  \/ SignOut
  \/ \E r \in reads : ReadServer(r)
  \/ \E r \in reads : ReadSettled(r)
  \/ RetryAfterDelay
  \/ \E p \in PromptInputs : SetAiPrompt(p)
  \/ HandleGenerateWithAi
  \/ \E resp \in PageResponses :
       AiSettled(HandleResponse(resp).ok, HandleResponse(resp).suggestions)
  \/ \E i \in 1..Len(aiSuggestions) : ToggleSuggestionSelected(i)
  \/ SelectAll
  \/ HandleAddSelectedSuggestions
  \/ \E m \in muts : CreateGetUser(m)
  \/ \E m \in muts : MutSettled(m)

SpecBulk == Init /\ [][NextBulk]_vars

\* generateTodosFromPrompt on its own: a credential or none, and one answer
\* of the endpoint
InitGateway ==
  /\ Fresh
  /\ sessions = MaxSessions
  /\ gw \in {[key |-> k, resp |-> r, pc |-> "start", requests |-> 0,
              result |-> NoResult] : k \in Keys, r \in Responses}

NextGateway == GwInvoke \/ GwRespond

SpecGateway == InitGateway /\ [][NextGateway]_vars

\* the page with its two inputs and the assistant's request
NextInputs ==
  \/ \E u \in Users : SignIn(u)
  \/ SignOut
  \/ \E r \in reads : ReadServer(r)
  \/ \E r \in reads : ReadSettled(r)
  \/ \E title \in TitleInputs : OnSubmit(title)
  \/ \E t \in Displayed : HandleEdit(t)
  \/ \E title \in TitleInputs : ChangeEditTitle(title)
  \/ HandleSaveEdit
  \/ HandleCancelEdit
  \/ \E p \in PromptInputs : SetAiPrompt(p)
  \/ HandleGenerateWithAi
  \/ \E resp \in PageResponses :
       AiSettled(HandleResponse(resp).ok, HandleResponse(resp).suggestions)
  \/ \E m \in muts : CreateGetUser(m)
  \/ \E m \in muts : MutSettled(m)

SpecInputs == Init /\ [][NextInputs]_vars

\* the page with its filter
NextFilter ==
  \/ \E u \in Users : SignIn(u)
  \/ SignOut
  \/ \E r \in reads : ReadServer(r)
  \/ \E r \in reads : ReadSettled(r)
  \/ RetryAfterDelay
  \/ \E f \in Filters : SetFilter(f)
  \/ \E t \in Displayed : ToggleCompleted(t)
  \/ \E t \in Displayed : DeleteClick(t)
  \/ \E title \in TitleInputs : OnSubmit(title)
  \/ \E m \in muts : CreateGetUser(m)
  \/ \E m \in muts : MutSettled(m)

SpecFilter == Init /\ [][NextFilter]_vars

\* the service answers every request, with a result or with an error
SpecLive ==
  /\ Init
  /\ [][Next]_vars
  /\ WF_vars(\E m \in muts : CreateGetUser(m))
  /\ WF_vars(\E m \in muts : MutSettled(m))

\* ------------------------------------------------------------- claims
LiveReads == {r \in reads : r.live}

\* nothing is in flight and the last read of the list succeeded
Quiet ==
  /\ muts = {}
  /\ reads = {}
  /\ query.fetchStatus = "idle"
  /\ query.status = "success"

\* C1: once every mutation has settled and every triggered read has
\* completed successfully, the cached list is the server's list of the user.
C1_CacheConverges ==
  (Mounted /\ settled.id > 0 /\ Quiet) => Todos = SelectTodos(db, user)

\* C2, as stated: at most one fetchTodos call is in flight at any time.
C2_OneCallInFlight == Cardinality(reads) <= 1

\* C2, amended: at most one fetchTodos call is attached to the cache entry
\* at any time, it exists exactly while the entry is fetching and not waiting
\* for a retry, and a read request that does not cancel the fetch in flight
\* (the mount of the page, an invalidation before any data is cached) joins
\* it and issues no call.
C2_OneLiveCall ==
  /\ [](/\ Cardinality(LiveReads) <= 1
        /\ (query.fetchStatus = "fetching") = retryer.active
        /\ (LiveReads # {}) = (retryer.active /\ ~retryer.waiting))
  /\ [][(/\ query.fetchStatus = "fetching"
         /\ \/ user = NoUser /\ user' # NoUser
            \/ settled'.id # settled.id /\ settled'.ok /\ ~query.hasData)
        => (nextRead' = nextRead /\ LiveReads' = LiveReads)]_vars

\* a request joined the call in flight, which is the only one attached
C2_Witness ==
  /\ retryer.joined
  /\ Cardinality(LiveReads) = 1
  /\ Cardinality(reads) = 1

\* this step settles a mutation / settles it with success / with failure
Settles == settled'.id # settled.id
Succeeds == Settles /\ settled'.ok
Fails == Settles /\ ~settled'.ok

\* this step handles the answer of the call attached to the cache entry
ReadSucceeds == retryer.outcome = "running" /\ retryer'.outcome = "success"
ReadGivesUp == retryer.outcome = "running" /\ retryer'.outcome = "error"
ReadFailsOnce ==
  /\ retryer.outcome = "running"
  /\ retryer'.outcome = "running"
  /\ retryer'.failureCount = retryer.failureCount + 1

\* C3: every mutation that succeeds marks the cache entry stale and issues a
\* fetchTodos call, which starts after the mutation's call has returned.
C3_SuccessRefetches ==
  [][Succeeds => (query'.isInvalidated /\ nextRead' = nextRead + 1)]_vars

\* C4: the cached list changes only by taking the result of a fetchTodos
\* call that completed successfully (or by the entry being dropped); issuing
\* a mutation and a mutation settling leave it as it is.
C4_NoOptimisticUpdate ==
  [][/\ (query'.data # query.data \/ query'.hasData # query.hasData)
        => \/ ~query'.exists
           \/ \E r \in reads :
                /\ r.live /\ r.phase = "answered" /\ r.ok
                /\ r \notin reads'
                /\ query'.hasData
                /\ query'.data = r.snap
     /\ (issued' # issued \/ Settles)
        => (query'.data = query.data /\ query'.hasData = query.hasData)]_vars

\* a mutation has succeeded and the page still shows the list fetched before
C4_Witness ==
  /\ Mounted
  /\ settled.ok
  /\ query.hasData
  /\ Todos # SelectTodos(db, user)

\* C5, first part: a mutation that fails is reported to the caller that
\* issued it (a caller whose page is still mounted).
C5_FailureReported ==
  (settled.id > 0 /\ ~settled.ok /\ ~settled.orphaned) => settled.reported

\* C5, the rest: a mutation that fails changes nothing of the cache entry and
\* issues no fetchTodos call.
C5_FailureLeavesCache ==
  [][Fails => (query' = query /\ reads' = reads /\ nextRead' = nextRead)]_vars

\* C6: a mutation request makes exactly one Data Access Layer call, whatever
\* its outcome, and one read makes at most two fetchTodos calls.
C6_OneCallPerMutation ==
  /\ \A m \in muts : m.calls = 1
  /\ settled.id > 0 => settled.calls = 1
  /\ retryer.calls <= 2

\* a mutation failed after its single call, a read was retried once
C6_Witness ==
  /\ settled.id > 0
  /\ ~settled.ok
  /\ settled.calls = 1
  /\ retryer.calls = 2

\* C7: a read that fails once and succeeds on the retry surfaces success and
\* at no time an error of its own; a read that fails twice makes no third
\* call and surfaces one error, that of its second call.
C7_RetryBound ==
  /\ retryer.calls <= 2
  /\ retryer.outcome = "running" => query.error < retryer.firstCall
  /\ retryer.outcome = "success"
       => (query.error = 0 /\ query.status = "success")
  /\ retryer.outcome = "error"
       => (query.error = retryer.lastCall /\ query.status = "error")
  /\ (retryer.outcome = "error" /\ ~retryer.isRetryCancelled)
       => retryer.calls = 2

\* the first call failed, the retry succeeded
C7_Witness ==
  /\ retryer.outcome = "success"
  /\ retryer.calls = 2
  /\ retryer.failureCount = 1
  /\ query.status = "success"

\* C8: a failed fetchTodos call, retried or given up, leaves the cached list
\* as it was, and the read that gives up surfaces its error beside it.
C8_FailedReadKeepsData ==
  [][/\ (ReadFailsOnce \/ ReadGivesUp)
        => (query'.data = query.data /\ query'.hasData = query.hasData)
     /\ ReadGivesUp => (query'.error # 0 /\ query'.status = "error")]_vars

\* a refresh gave up and the list fetched earlier is still there
C8_Witness ==
  /\ retryer.outcome = "error"
  /\ query.status = "error"
  /\ query.hasData
  /\ query.data # <<>>

\* C9: the rows shown to the current user are all the current user's.
C9_OnlyOwnTodos == \A t \in Displayed : Mounted => t.user_id = user

\* C10: no create and no title edit carries an empty or whitespace-only
\* title, and no stored todo has one.
C10_NoBlankTitle ==
  /\ \A m \in muts :
       /\ m.kind = "create" => Trim(m.vars.title) # <<>>
       /\ (m.kind = "update" /\ "title" \in DOMAIN m.vars.updates)
            => Trim(m.vars.updates.title) # <<>>
  /\ \A t \in db : Trim(t.title) # <<>>

\* C11: while a mutation issued by the page is in flight, its kind is
\* reported as pending, also when several of one kind are in flight.
C11_PendingWhileInFlight == \A m \in muts : ~m.orphaned => IsPending(m.kind)

InFlight(id) == \E m \in muts : m.id = id

\* C12, as stated: on a mounted page the status of a mutation kind changes
\* only idle -> pending, pending -> success, pending -> error,
\* success -> idle, error -> idle.
C12_BackToIdle ==
  [][user' = user
     => \A k \in Kinds :
          \/ obs'[k].status = obs[k].status
          \/ <<obs[k].status, obs'[k].status>> \in
               {<<"idle", "pending">>, <<"pending", "success">>,
                <<"pending", "error">>, <<"success", "idle">>,
                <<"error", "idle">>}]_vars

\* C12, amended: on a mounted page the status of a mutation kind changes
\* only idle -> pending, pending -> success, pending -> error,
\* success -> pending, error -> pending; success and error are left only by
\* the next request; the status is pending exactly while the mutation the
\* hook observes is in flight, and it becomes success or error in the step
\* that settles that mutation, by its outcome; every issued mutation
\* eventually settles.
C12_MutationStatus ==
  /\ [](\A k \in Kinds :
          /\ obs[k].status \in {"idle", "pending", "success", "error"}
          /\ IsPending(k) = InFlight(obs[k].mut))
  /\ [][user' = user
        => \A k \in Kinds :
             \/ obs'[k].status = obs[k].status
             \/ /\ obs[k].status \in {"idle", "success", "error"}
                /\ obs'[k].status = "pending"
                /\ issued' > issued
             \/ /\ obs[k].status = "pending"
                /\ Settles
                /\ settled'.id = obs[k].mut
                /\ obs'[k].status = IF settled'.ok THEN "success"
                                    ELSE "error"]_vars
  /\ \A id \in 1..MaxMutations : InFlight(id) ~> ~InFlight(id)

\* a create was requested after the create before it had succeeded
C12_Witness ==
  /\ Mounted
  /\ IsPending("create")
  /\ settled.kind = "create"
  /\ settled.ok
  /\ ~settled.orphaned

\* C13: a mutation that succeeds while a fetchTodos call is attached to the
\* cache entry leaves that call attached and issues a new call.
C13_ReadNotCancelled ==
  [][(Succeeds /\ Mounted /\ LiveReads # {})
        => /\ \A r \in LiveReads : r \in reads'
           /\ nextRead' = nextRead + 1]_vars

Rows(list) == {list[i] : i \in 1..Len(list)}

C15_SuccessReplaces ==
  [][ReadSucceeds
       => \E r \in LiveReads :
            /\ r.phase = "answered" /\ r.ok
            /\ r \notin reads'
            /\ query'.hasData
            /\ query'.data = FetchTodosResult(r)
            /\ query'.fetchStatus = "idle"
            /\ query'.status = "success"
            /\ query'.error = 0
            /\ query'.fetchFailureCount = 0
            /\ ~IsLoading']_vars

\* after a delete, the read replaced the two cached rows by the one left
C15_Witness ==
  /\ Mounted
  /\ retryer.outcome = "success"
  /\ settled.kind = "delete"
  /\ settled.ok
  /\ Len(query.data) = 1
  /\ query.data = SelectTodos(db, user)

\* C16: createTodo with no identity at call time fails with the
\* not-authenticated error and sends no insert; with an identity, the insert
\* it sends carries that identity as user_id.
C16_CreateChecksIdentity ==
  /\ [](\A m \in muts :
          (m.kind = "create" /\ m.pc = "sent")
            => (m.uid \in Users /\ m.vars.user_id = m.uid))
  /\ [](\A t \in db : t.user_id \in Users)
  /\ [][\A m \in muts :
          (m.pc = "getUser" /\ ~\E n \in muts' : n.id = m.id /\ n.pc = "getUser")
            => IF user = NoUser
               THEN /\ Fails
                    /\ settled'.id = m.id
                    /\ settled'.error = "NotAuthenticated"
                    /\ db' = db
                    /\ ~\E n \in muts' : n.id = m.id
               ELSE /\ db' = db
                    /\ \E n \in muts' :
                         /\ n.id = m.id
                         /\ n.pc = "sent"
                         /\ n.vars.title = m.vars.title
                         /\ n.vars.user_id = user]_vars

\* a create issued from the page ran after the session had ended
C16_Witness ==
  /\ settled.kind = "create"
  /\ settled.error = "NotAuthenticated"
  /\ settled.orphaned
  /\ db = SeedRows

\* C17: an update carries title or completed, the one its caller provided;
\* it changes no other todo and, of its target, neither id, created_at,
\* user_id nor the field it does not carry.
C17_UpdateFrame ==
  /\ [](\A m \in muts :
          m.kind = "update"
            => DOMAIN m.vars.updates =
                 (IF m.via = "checkbox" THEN {"completed"} ELSE {"title"}))
  /\ [][/\ \A m \in muts :
            (m.kind = "update" /\ Settles /\ settled'.id = m.id)
              => /\ Cardinality(db') = Cardinality(db)
                 /\ \A t \in db : t.id # m.vars.id => t \in db'
                 /\ \A t \in db :
                      t.id = m.vars.id
                        => \E t2 \in db' :
                             /\ t2.id = t.id
                             /\ \A f \in DOMAIN t \ DOMAIN m.vars.updates :
                                  t2[f] = t[f]
        /\ \A t \in db, t2 \in db' :
            t.id = t2.id
              => (t2.created_at = t.created_at /\ t2.user_id = t.user_id)]_vars

\* the checkbox of a seeded row was saved: completed flipped, title kept
C17_Witness ==
  /\ settled.kind = "update"
  /\ settled.via = "checkbox"
  /\ settled.ok
  /\ \E t \in db :
       /\ t.id = settled.target
       /\ \E o \in SeedRows :
            /\ o.id = t.id
            /\ o.completed # t.completed
            /\ o.title = t.title

\* C18: a select answers exactly the rows owned by the identity of the
\* request, no client-side filter applied; the table changes only by the
\* statement of a mutation, and only in rows owned by its identity.
C18_RowLevelSecurity ==
  [][/\ \A r \in reads' \ reads :
          (r.phase = "answered" /\ r.ok)
            => FetchTodosResult(r) = SortDesc({t \in db : t.user_id = r.uid})
     /\ db' # db
          => \E m \in muts :
               /\ m.pc = "sent"
               /\ settled'.id = m.id
               /\ \A t \in (db \ db') \cup (db' \ db) : t.user_id = m.uid]_vars

\* a delete aimed at another user's row was answered, and the row is there
C18_Witness ==
  /\ Mounted
  /\ settled.kind = "delete"
  /\ settled.ok
  /\ ~settled.orphaned
  /\ \E t \in db : t.id = settled.target /\ t.user_id # user

Distinct(titles) ==
  \A i, j \in 1..Len(titles) : titles[i] = titles[j] => i = j

\* C19: when the last create of a bulk addition of distinct titles succeeds,
\* all of them having succeeded and no other mutation having been issued, a
\* read of the list holds each of the titles exactly once.
C19_BulkCreatesAllPresent ==
  [][\A m \in muts : \A b \in BatchOf(m) :
       (/\ Succeeds /\ settled'.id = m.id
        /\ b.left = 1
        /\ issued = b.n
        /\ Distinct(b.titles))
         => \A k \in 1..b.n :
              Cardinality({t \in Rows(SelectTodos(db', m.uid)) :
                             t.title = b.titles[k]}) = 1]_vars

\* both creates of a bulk addition succeeded, the second-dispatched first,
\* and the list read afterwards holds both titles once
C19_Witness ==
  /\ settled.via = "bulk"
  /\ settled.ok
  /\ bulk = {}
  /\ aiStatus = "success"
  /\ aiSuggestions = <<>>
  /\ query.status = "success"
  /\ query.fetchStatus = "idle"
  /\ \E i, j \in 1..Len(query.data) :
       /\ query.data[i].title = <<"x">>
       /\ query.data[j].title = <<"y">>
       /\ query.data[i].created_at > query.data[j].created_at
  /\ \A title \in {<<"x">>, <<"y">>} :
       Cardinality({i \in 1..Len(query.data) :
                      query.data[i].title = title}) = 1

\* C20: a create that succeeds on an empty list leaves a list of exactly one
\* todo, with the title given, not completed, with id and created_at set;
\* and a read answers the list as it is.
C20_CreateThenRead ==
  [][/\ \A m \in muts :
          (/\ m.kind = "create"
           /\ Succeeds /\ settled'.id = m.id
           /\ SelectTodos(db, m.uid) = <<>>)
            => LET list == SelectTodos(db', m.uid) IN
               /\ Len(list) = 1
               /\ list[1].title = m.vars.title
               /\ list[1].completed = FALSE
               /\ list[1].id > 0
               /\ list[1].created_at > 0
               /\ list[1].user_id = m.uid
     /\ \A r \in reads' \ reads :
          (r.phase = "answered" /\ r.ok)
            => FetchTodosResult(r) = SelectTodos(db, r.uid)]_vars

\* the first todo of a user was created and the list read afterwards
C20_Witness ==
  /\ Mounted
  /\ settled.kind = "create"
  /\ settled.ok
  /\ query.status = "success"
  /\ query.fetchStatus = "idle"
  /\ Len(query.data) = 1
  /\ query.data[1].completed = FALSE
  /\ query.data[1].user_id = user
  /\ query.data = SelectTodos(db, user)

\* C21: a create of the add form that fails leaves the form's title, a title
\* edit that fails leaves the inline editor and its content, and a failed
\* request of the assistant leaves the cache entry, the fetchTodos calls, the
\* mutations and their states as they are, showing its error on its line.
C21_FailureKeepsInput ==
  [][/\ \A m \in muts :
          (Fails /\ settled'.id = m.id /\ ~m.orphaned)
            => /\ m.via = "onSubmit"
                    => (formTitle' = formTitle /\ formTitle = m.vars.title)
               /\ m.via = "handleSaveEdit"
                    => (editingId' = editingId /\ editTitle' = editTitle)
     /\ (aiStatus = "pending" /\ aiStatus' = "error")
          => /\ aiError' = "failed"
             /\ UNCHANGED <<db, query, retryer, reads, nextRead, muts, issued,
                            settled, obs>>]_vars

\* a create, a title edit and a request of the assistant have failed: the
\* form holds its title, the editor is open on the edited title
C21_Witness ==
  /\ Mounted
  /\ obs["create"].status = "error"
  /\ formTitle = <<" ", "c">>
  /\ settled.via = "handleSaveEdit"
  /\ ~settled.ok
  /\ editingId = settled.target
  /\ editTitle = <<" ", "c">>
  /\ aiStatus = "error"

Configured == gw.key # ""
Done == gw.pc = "done"

\* C22: an invocation without a credential ends with the not-configured
\* error and has sent no request; no other outcome carries that error.
C22_NotConfigured ==
  /\ (Done /\ ~Configured)
       => (~gw.result.ok /\ gw.result.error = "NotConfigured"
           /\ gw.requests = 0)
  /\ ~Configured => gw.requests = 0
  /\ (Done /\ Configured) => gw.result.error # "NotConfigured"

\* without a credential, an endpoint that would have answered was not asked
C22_Witness ==
  /\ Done
  /\ ~Configured
  /\ gw.requests = 0
  /\ gw.resp = Http(200, <<"{", "Sxy", "}">>)

\* C23: an invocation with a credential sends one request, whatever its
\* outcome.
C23_OneRequest ==
  /\ gw.requests <= 1
  /\ (Configured /\ gw.pc \in {"fetching", "done"}) => gw.requests = 1

\* a non-success status, after one request
C23_Witness ==
  /\ Done
  /\ Configured
  /\ gw.requests = 1
  /\ gw.result.error = "RequestFailed"

\* a JSON object of the shape { "suggestions": [...] }
IsObject(text) ==
  /\ JsonParse(text).ok
  /\ ~JsonParse(text).isNull
  /\ JsonParse(text).hasSuggestions

\* the completion text holds a JSON object at i..j and nowhere else
OnlyObjectAt(text, i, j) ==
  /\ IsObject(SubSeq(text, i, j))
  /\ \A a, b \in 1..Len(text) :
       IsObject(SubSeq(text, a, b)) => (a = i /\ b = j)

NeitherParses(text) ==
  /\ ~JsonParse(text).ok
  /\ \/ IndexOf(text, "{") = 0
     \/ LastIndexOf(text, "}") = 0
     \/ ~JsonParse(SubSeq(text, IndexOf(text, "{"),
                          LastIndexOf(text, "}"))).ok

Answered200 ==
  Done /\ Configured /\ gw.resp.kind = "http" /\ gw.resp.status = 200

C25_RequestFailed ==
  (Done /\ Configured /\ gw.resp.kind = "http" /\ ~ResponseOk(gw.resp))
    => /\ ~gw.result.ok
       /\ gw.result.error = "RequestFailed"
       /\ gw.result.status = gw.resp.status
       /\ gw.result.text = gw.resp.content
       /\ gw.result.suggestions = <<>>

\* status 500 with a body that would parse to two suggestions
C25_Witness ==
  /\ Done
  /\ Configured
  /\ gw.resp = Http(500, <<"{", "Sxy", "}">>)
  /\ gw.result.error = "RequestFailed"
  /\ gw.result.text = <<"{", "Sxy", "}">>

\* C26: a completion text that parses, with an empty list of suggestions or
\* none, ends the invocation with the empty sequence and no error.
C26_EmptyIsNoError ==
  (/\ Answered200
   /\ gw.resp.content # <<>>
   /\ ParseContent(gw.resp.content).ok
   /\ ParseContent(gw.resp.content).suggestions = <<>>)
    => (gw.result.ok /\ gw.result.suggestions = <<>>)

Pos(list, t) == CHOOSE k \in 1..Len(list) : list[k] = t

\* C27: on the cached list, filtering twice by active (by completed) gives
\* what filtering once gives, the filter all gives the list itself, and
\* each filter keeps exactly the todos of its kind, in the list's order.
C27_FilterProjection ==
  /\ \A f \in Filters :
       LET once == FilterTodos(Todos, f) IN
       /\ FilterTodos(once, f) = once
       /\ Rows(once) = {t \in Rows(Todos) : Keeps(t, f)}
       /\ Len(once) = Cardinality(Rows(once))
       /\ \A i, j \in 1..Len(once) :
            i < j => Pos(Todos, once[i]) < Pos(Todos, once[j])
  /\ FilterTodos(Todos, "all") = Todos
  /\ \A t \in Rows(FilterTodos(Todos, "active")) : ~t.completed
  /\ \A t \in Rows(FilterTodos(Todos, "completed")) : t.completed

\* three todos cached, the filter active keeps two of them
C27_Witness ==
  /\ Mounted
  /\ filter = "active"
  /\ Len(Todos) = 3
  /\ Len(FilteredTodos) = 2

\* C28: choosing a filter leaves the table, the cache entry, the fetchTodos
\* calls and the mutations with their states as they are.
C28_FilterIsLocal ==
  [][(filter' # filter /\ user' = user)
       => UNCHANGED <<db, clock, query, retryer, reads, nextRead, muts,
                      issued, settled, obs>>]_vars

\* the filter completed on a fetched list, nothing in flight
C28_Witness ==
  /\ Mounted
  /\ filter = "completed"
  /\ query.status = "success"
  /\ query.fetchStatus = "idle"
  /\ ~query.isInvalidated
  /\ reads = {}
  /\ Len(Todos) = 2
  /\ Len(FilteredTodos) = 1

NewMutations == {m \in muts' : ~InFlight(m.id)}

\* C29: a bulk addition issues, in one step, one create per selected title
\* that is not blank; suggestions, selection and prompt are cleared by the
\* step in which the last of its creates succeeds, all of them having
\* succeeded, and a create of a bulk addition that fails, or succeeds before
\* the others have, leaves the three as they are and the table with the rows
\* created so far.
C29_BulkJoin ==
  [][/\ (bulk' # bulk /\ issued' # issued)
          => LET titles == TitlesToAdd(aiSuggestions,
                                       selectedSuggestionIndexes) IN
             /\ issued' = issued + Len(titles)
             /\ Cardinality(NewMutations) = Len(titles)
             /\ \A k \in 1..Len(titles) :
                  /\ Trim(titles[k]) # <<>>
                  /\ \E m \in NewMutations :
                       /\ m.id = issued + k
                       /\ m.kind = "create"
                       /\ m.vars.title = titles[k]
     /\ \A m \in muts :
          (m.via = "bulk" /\ Settles /\ settled'.id = m.id /\ ~m.orphaned)
            => /\ db \subseteq db'
               /\ IF settled'.ok /\ \E b \in BatchOf(m) : b.left = 1
                  THEN /\ aiSuggestions' = <<>>
                       /\ selectedSuggestionIndexes' = <<>>
                       /\ aiPrompt' = <<>>
                  ELSE UNCHANGED <<aiSuggestions, selectedSuggestionIndexes,
                                   aiPrompt>>]_vars

\* of a bulk addition of x and y one create failed and one succeeded: its
\* row is in the table, and the suggestions are still there
C29_Witness ==
  /\ Mounted
  /\ muts = {}
  /\ bulk = {}
  /\ issued = 2
  /\ settled.via = "bulk"
  /\ Len(aiSuggestions) = 2
  /\ Len(selectedSuggestionIndexes) = 2
  /\ aiPrompt # <<>>
  /\ Cardinality(db) = Cardinality(SeedRows) + 1

\* C30: the selected indexes are distinct indexes of the suggestions shown;
\* a generation that succeeds replaces the suggestions and selects every
\* index, one that fails leaves both; Select all selects every index; and
\* toggling an index twice gives the selection back (as a set of indexes).
C30_SelectionValid ==
  /\ [](/\ \A k \in 1..Len(selectedSuggestionIndexes) :
             selectedSuggestionIndexes[k] \in 1..Len(aiSuggestions)
        /\ Distinct(selectedSuggestionIndexes)
        /\ Rows(AllIndexes(aiSuggestions)) = 1..Len(aiSuggestions)
        /\ Len(AllIndexes(aiSuggestions)) = Len(aiSuggestions)
        /\ \A i \in 1..Len(aiSuggestions) :
             LET twice == Toggled(Toggled(selectedSuggestionIndexes, i), i) IN
             /\ Rows(twice) = Rows(selectedSuggestionIndexes)
             /\ Distinct(twice)
             /\ (i \in Rows(Toggled(selectedSuggestionIndexes, i)))
                  = (i \notin Rows(selectedSuggestionIndexes)))
  /\ [][/\ (aiStatus = "pending" /\ aiStatus' = "success")
            => selectedSuggestionIndexes' = AllIndexes(aiSuggestions')
        /\ (aiStatus = "pending" /\ aiStatus' = "error")
            => UNCHANGED <<aiSuggestions, selectedSuggestionIndexes>>
        /\ (user' = user /\ aiSuggestions' = aiSuggestions
            /\ Len(selectedSuggestionIndexes') = Len(aiSuggestions)
            /\ selectedSuggestionIndexes' # selectedSuggestionIndexes
            /\ Len(selectedSuggestionIndexes) # Len(aiSuggestions) - 1)
            => selectedSuggestionIndexes' = AllIndexes(aiSuggestions)]_vars

\* an index was toggled off and on again: both selected, in another order
C30_Witness ==
  /\ Len(aiSuggestions) = 2
  /\ selectedSuggestionIndexes = <<2, 1>>

====
